---------------------------- MODULE Spec2Model ----------------------------
(***************************************************************************)
(* Wunderbots: the episode library (library/<slug>.json), the two-stage    *)
(* generation chain of the server (server.py) and of the batch generator   *)
(* (generate_library.py), the audio pass and the per-scene audio cache     *)
(* write of /api/tts.                                                      *)
(*                                                                         *)
(* Text is modelled as a sequence of one-character strings, so that        *)
(* slugify and the substring tests of the code are computed, not assumed.  *)
(***************************************************************************)
EXTENDS Integers, Sequences, FiniteSets, TLC

(***************************************************************************)
(* Bounds of the model.                                                    *)
(***************************************************************************)
\* number of operations (requests, script runs) started in one behaviour
MaxOps == 3
\* number of distinct non-empty audio clips the synthesis backend can return
NumAudio == 1

(***************************************************************************)
(* Characters and strings.                                                 *)
(***************************************************************************)
UpperCase == <<"A","B","C","D","E","F","G","H","I","J","K","L","M",
               "N","O","P","Q","R","S","T","U","V","W","X","Y","Z">>

LowerCase == <<"a","b","c","d","e","f","g","h","i","j","k","l","m",
               "n","o","p","q","r","s","t","u","v","w","x","y","z">>

Digits == <<"0","1","2","3","4","5","6","7","8","9">>

Range(f) == {f[i] : i \in DOMAIN f}

\* str.lower() on one character
LowerChar(c) ==
    IF \E i \in DOMAIN UpperCase : UpperCase[i] = c
    THEN LowerCase[CHOOSE i \in DOMAIN UpperCase : UpperCase[i] = c]
    ELSE c

\* str.lower()
Lower(t) == [i \in DOMAIN t |-> LowerChar(t[i])]

\* \s of the regular expressions, and the characters str.strip() removes
Space == {" ", "\t", "\n", "\r"}

\* \w of the regular expressions
WordChars == Range(UpperCase) \cup Range(LowerCase) \cup Range(Digits) \cup {"_"}

RECURSIVE LStrip(_, _)
LStrip(t, chars) ==
    IF t # <<>> /\ Head(t) \in chars THEN LStrip(Tail(t), chars) ELSE t

RECURSIVE RStrip(_, _)
RStrip(t, chars) ==
    IF t # <<>> /\ t[Len(t)] \in chars
    THEN RStrip(SubSeq(t, 1, Len(t) - 1), chars)
    ELSE t

\* str.strip()
Strip(t) == RStrip(LStrip(t, Space), Space)

\* str.strip('-')
StripHyphen(t) == RStrip(LStrip(t, {"-"}), {"-"})

\* re.sub(r'[^\w\s-]', '', t)
DropPunct(t) == SelectSeq(t, LAMBDA c : c \in WordChars \cup Space \cup {"-"})

\* the class [\s_-]
Separators == Space \cup {"_", "-"}

\* re.sub(r'[\s_-]+', '-', t)
RECURSIVE CollapseSep(_)
CollapseSep(t) ==
    IF t = <<>> THEN <<>>
    ELSE IF Head(t) \in Separators
         THEN <<"-">> \o CollapseSep(LStrip(t, Separators))
         ELSE <<Head(t)>> \o CollapseSep(Tail(t))

\* t[:n]
Prefix(t, n) == SubSeq(t, 1, IF Len(t) < n THEN Len(t) ELSE n)

SlugMax == 60

slugify(text) ==
    StripHyphen(Prefix(CollapseSep(DropPunct(Strip(Lower(text)))), SlugMax))

\* needle in hay
Contains(hay, needle) ==
    \E i \in 0..(Len(hay) - Len(needle)) :
        SubSeq(hay, i + 1, i + Len(needle)) = needle

\* str(n) for a natural number
RECURSIVE DecStr(_)
DecStr(n) ==
    IF n < 10 THEN <<Digits[n + 1]>> ELSE DecStr(n \div 10) \o <<Digits[(n % 10) + 1]>>

(***************************************************************************)
(* base64.b64encode(...).decode("ascii"): a text over the base64 alphabet, *)
(* written as the sequence of the 6-bit digit values, 64 for the pad "=".  *)
(***************************************************************************)
RECURSIVE b64encode(_)
b64encode(bytes) ==
    IF bytes = <<>> THEN <<>>
    ELSE IF Len(bytes) = 1 THEN
        LET v == bytes[1] * 65536
        IN  <<v \div 262144, (v \div 4096) % 64, 64, 64>>
    ELSE IF Len(bytes) = 2 THEN
        LET v == bytes[1] * 65536 + bytes[2] * 256
        IN  <<v \div 262144, (v \div 4096) % 64, (v \div 64) % 64, 64>>
    ELSE
        LET v == bytes[1] * 65536 + bytes[2] * 256 + bytes[3]
        IN  <<v \div 262144, (v \div 4096) % 64, (v \div 64) % 64, v % 64>>
            \o b64encode(SubSeq(bytes, 4, Len(bytes)))

(***************************************************************************)
(* tts.py: the voice tables and build_expert_voice_map.                    *)
(***************************************************************************)
\* a table in which pip's voice is a copy of bolt's
GUIDE_VOICES_copied ==
    [nova |-> "rRiIQLylyhtZZrjx61F1",
     bolt |-> "2f1b6Q2ICKpLzWrEEYVE",
     pip  |-> "2f1b6Q2ICKpLzWrEEYVE"]

GUIDE_VOICES ==
    [nova |-> "rRiIQLylyhtZZrjx61F1",
     bolt |-> "2f1b6Q2ICKpLzWrEEYVE",
     pip  |-> "cN9lACJjByQco3FyvGzE"]

EXPERT_VOICES_FEMALE ==
    <<"67oeJmj7jIMsdE6yXPr5", "ZT9u07TYPVl83ejeLakq",
      "y5LC9pxhb6k0W8IrQUXS", "0rEo3eAjssGDUCXHYENf">>

EXPERT_VOICES_MALE ==
    <<"MDLAMJ0jxkpYkjXbmG4t", "g2W4HAjKvdW93AmsjsOx",
      "Fz7HYdHHCP1EF1FLn46C", "n1PvBOwxb8X6m7tahp2h">>

EXPERT_VOICE_POOL == EXPERT_VOICES_FEMALE \o EXPERT_VOICES_MALE

\* voice_map[char_id] = voice
SetVoice(voice_map, char_id, voice) ==
    [c \in DOMAIN voice_map \cup {char_id} |->
        IF c = char_id THEN voice ELSE voice_map[c]]

\* one counter for the three pools: every index is the number of experts so far
RECURSIVE VoiceLoopShared(_, _, _, _, _)
VoiceLoopShared(characters, voice_map, female_idx, male_idx, fallback_idx) ==
    IF characters = <<>> THEN voice_map
    ELSE
        LET char == Head(characters)
            idx  == female_idx + male_idx + fallback_idx
            pool == IF Lower(char.gender) = <<"f","e","m","a","l","e">>
                    THEN EXPERT_VOICES_FEMALE
                    ELSE IF Lower(char.gender) = <<"m","a","l","e">>
                    THEN EXPERT_VOICES_MALE ELSE EXPERT_VOICE_POOL
        IN  IF char.id \in DOMAIN GUIDE_VOICES
            THEN VoiceLoopShared(Tail(characters),
                                 SetVoice(voice_map, char.id, GUIDE_VOICES[char.id]),
                                 female_idx, male_idx, fallback_idx)
            ELSE VoiceLoopShared(Tail(characters),
                                 SetVoice(voice_map, char.id, pool[(idx % Len(pool)) + 1]),
                                 female_idx + 1, male_idx, fallback_idx)

\* the loop of build_expert_voice_map over characters.items(), in order;
\* a character is [id, gender]: gender is the text of its "gender" field,
\* empty when the field is absent
RECURSIVE VoiceLoop(_, _, _, _, _)
VoiceLoop(characters, voice_map, female_idx, male_idx, fallback_idx) ==
    IF characters = <<>> THEN voice_map
    ELSE
        LET char   == Head(characters)
            rest   == Tail(characters)
            gender == Lower(char.gender)
        IN  IF char.id \in DOMAIN GUIDE_VOICES
            THEN VoiceLoop(rest, SetVoice(voice_map, char.id, GUIDE_VOICES[char.id]),
                           female_idx, male_idx, fallback_idx)
            ELSE IF gender = <<"f","e","m","a","l","e">>
            THEN VoiceLoop(rest,
                           SetVoice(voice_map, char.id,
                               EXPERT_VOICES_FEMALE[(female_idx % Len(EXPERT_VOICES_FEMALE)) + 1]),
                           female_idx + 1, male_idx, fallback_idx)
            ELSE IF gender = <<"m","a","l","e">>
            THEN VoiceLoop(rest,
                           SetVoice(voice_map, char.id,
                               EXPERT_VOICES_MALE[(male_idx % Len(EXPERT_VOICES_MALE)) + 1]),
                           female_idx, male_idx + 1, fallback_idx)
            ELSE VoiceLoop(rest,
                           SetVoice(voice_map, char.id,
                               EXPERT_VOICE_POOL[(fallback_idx % Len(EXPERT_VOICE_POOL)) + 1]),
                           female_idx, male_idx, fallback_idx + 1)

build_expert_voice_map(characters) == VoiceLoop(characters, <<>>, 0, 0, 0)

(***************************************************************************)
(* tts.py: generate_speech, given what the backend does with the request.  *)
(* A backend reply is [kind |-> "http", status, content] or, when          *)
(* requests.post itself raises, [kind |-> "raise", msg].  The result is    *)
(* [ok |-> TRUE, bytes] or [ok |-> FALSE, msg], msg being str(e).          *)
(***************************************************************************)
MsgEmptyText == <<"E","m","p","t","y"," ","t","e","x","t">>

MsgTtsFailed ==
    <<"E","l","e","v","e","n","L","a","b","s"," ","T","T","S"," ",
      "f","a","i","l","e","d",":"," ">>

\* a failure whose text names the rate limit
MsgRateLimit == <<"R","a","t","e"," ","l","i","m","i","t"," ",
                  "e","x","c","e","e","d","e","d">>

AudioClip(i) == <<73, 68, i>>

\* response.content of a 200 reply: a clip, or nothing
AudioContents == {<<>>} \cup {AudioClip(i) : i \in 1..NumAudio}

BackendReplies ==
    [kind : {"http"}, status : {200}, content : AudioContents, msg : {<<>>}]
    \cup [kind : {"http"}, status : {429}, content : {<<>>}, msg : {<<>>}]
    \cup [kind : {"raise"}, status : {0}, content : {<<>>}, msg : {MsgRateLimit}]

generate_speech(text, voice_id, emotion, reply) ==
    IF Strip(text) = <<>>
    THEN [ok |-> FALSE, bytes |-> <<>>, msg |-> MsgEmptyText]
    ELSE IF reply.kind = "raise"
    THEN [ok |-> FALSE, bytes |-> <<>>, msg |-> reply.msg]
    ELSE IF reply.status # 200
    THEN [ok |-> FALSE, bytes |-> <<>>, msg |-> MsgTtsFailed \o DecStr(reply.status)]
    ELSE [ok |-> TRUE, bytes |-> reply.content, msg |-> <<>>]


(***************************************************************************)
(* Episode documents.  A field that a JSON document may lack has a has_    *)
(* flag beside it (has_question, has_audio_cache, ...), or the value       *)
(* Absent when it is a plain string.                                       *)
(***************************************************************************)
Absent == "<absent>"

\* a scene; options is the list of a quiz scene, empty for the other types
Scene(type, character, emotion, text) ==
    [type |-> type, character |-> character, emotion |-> emotion, text |-> text,
     options |-> <<>>]

\* an option of a quiz: of {text, correct, response} the flag
Option(correct) == [correct |-> correct]

\* a quiz scene with these options
Quiz(options) == [Scene("quiz", Absent, Absent, <<>>) EXCEPT !.options = options]

Char(id, gender) == [id |-> id, gender |-> gender]

Female == <<"f","e","m","a","l","e">>
Male == <<"m","a","l","e">>

QSky == <<"S","k","y","?">>
QSkyLower == <<" ","s","k","y">>
QBlank == <<" ">>
QLong == [i \in 1..201 |-> "a"]
QUnknown == <<"u","n","k","n","o","w","n">>

\* questions a caller asks
Questions == {QSky, QSkyLower}

\* request bodies of /api/generate: also a blank and an oversized question
GenerateInputs == Questions \cup {QBlank, QLong}

\* the scene texts
T1 == <<"h","i">>
T2 == <<"o","h">>
TBlank == <<" ">>

\* the parsed payloads a Stage 2 reply can carry, by name
DocBody(name) ==
    CASE name = "docA" ->
            [has_question |-> TRUE, question |-> QSky,
             characters |-> <<Char("nova", <<>>), Char("dr_ray", Female),
                              Char("bolt", <<>>), Char("prof_sol", Male)>>,
             acts |-> << <<Scene("dialogue", "nova", "excited", T1),
                           Quiz(<<Option(FALSE), Option(TRUE), Option(FALSE)>>)>>,
                         <<Scene("explanation", "dr_ray", "explaining", T2),
                           Scene("dialogue", "bolt", "silly", <<>>),
                           Scene("dialogue", "zed", Absent, T1)>> >>]
      [] name = "docB" ->
            [has_question |-> TRUE, question |-> QSkyLower,
             characters |-> <<Char("pip", <<>>), Char("ms_io", <<>>)>>,
             acts |-> << <<Scene("transition", Absent, Absent, T1),
                           Scene("explanation", "ms_io", "happy", T2)>> >>]
      [] name = "docEmpty" ->
            [has_question |-> TRUE, question |-> QSky,
             characters |-> <<Char("nova", <<>>)>>,
             acts |-> <<>>]
      [] name = "docNoQ" ->
            [has_question |-> FALSE, question |-> <<>>,
             characters |-> <<Char("bolt", <<>>)>>,
             acts |-> << <<Scene("celebration", Absent, Absent, T1),
                           Scene("dialogue", "bolt", "silly", TBlank),
                           Quiz(<<Option(TRUE), Option(TRUE)>>)>> >>]

DocNames == {"docA", "docB", "docEmpty", "docNoQ"}

\* the document json.loads returns for a Stage 2 payload: no voice_map, no
\* episode_key and no audio_cache yet (the text of the episode key, a hash and
\* a time, is not modelled: only that the document has one)
ParsedDoc(name) ==
    LET d == DocBody(name)
    IN  [has_question |-> d.has_question, question |-> d.question,
         characters |-> d.characters, acts |-> d.acts,
         has_voice_map |-> FALSE, voice_map |-> <<>>,
         has_episode_key |-> FALSE,
         has_audio_cache |-> FALSE, audio_cache |-> <<>>]

NoDoc ==
    [has_question |-> FALSE, question |-> <<>>, characters |-> <<>>, acts |-> <<>>,
     has_voice_map |-> FALSE, voice_map |-> <<>>, has_episode_key |-> FALSE,
     has_audio_cache |-> FALSE, audio_cache |-> <<>>]

\* the file names of library/: the slugs the modelled requests can produce
Slugs == {slugify(q) : q \in Questions \cup {QUnknown}}


(***************************************************************************)
(* Replies of the generation capability.  A reply is a text, written as a  *)
(* sequence of tokens: the code fence, the language tag "json" right       *)
(* after a fence, a newline, a stretch of prose, and the payload, named by *)
(* what it parses to ("garbage" does not parse).                           *)
(***************************************************************************)
\* the three backquotes of a code fence
Fence == "<fence>"

Wrappings(x) ==
    { <<x>>,
      <<Fence, "json", "\n", x, "\n", Fence>>,
      <<Fence, "\n", x, "\n", Fence>>,
      <<"prose", "\n", Fence, "json", "\n", x, "\n", Fence>>,
      <<"prose", "\n", x>> }

Stage1Replies == Wrappings("outline") \cup {<<"garbage">>}

Stage2Replies == UNION {Wrappings(d) : d \in DocNames} \cup {<<"garbage">>}

\* index of the first tok in t, 0 when there is none
FirstIndex(t, tok) ==
    IF \E i \in DOMAIN t : t[i] = tok
    THEN CHOOSE i \in DOMAIN t : t[i] = tok /\ \A j \in 1..(i - 1) : t[j] # tok
    ELSE 0

LastIndex(t, tok) ==
    IF \E i \in DOMAIN t : t[i] = tok
    THEN CHOOSE i \in DOMAIN t : t[i] = tok /\ \A j \in (i + 1)..Len(t) : t[j] # tok
    ELSE 0

\* t.split(tok, 1)[1]
AfterFirst(t, tok) == SubSeq(t, FirstIndex(t, tok) + 1, Len(t))

\* t.split(tok)[0]
BeforeFirst(t, tok) ==
    IF FirstIndex(t, tok) = 0 THEN t ELSE SubSeq(t, 1, FirstIndex(t, tok) - 1)

\* t.rsplit(tok, 1)[0]
BeforeLast(t, tok) ==
    IF LastIndex(t, tok) = 0 THEN t ELSE SubSeq(t, 1, LastIndex(t, tok) - 1)

\* server.py clean_json; [ok |-> FALSE] is the IndexError of split(...)[1]
clean_json(text) ==
    LET t == Strip(text)
    IN  IF t # <<>> /\ t[1] = Fence
        THEN IF FirstIndex(t, "\n") = 0
             THEN [ok |-> FALSE, text |-> <<>>]
             ELSE [ok |-> TRUE, text |-> Strip(BeforeLast(AfterFirst(t, "\n"), Fence))]
        ELSE [ok |-> TRUE, text |-> t]

\* index of the first fence followed by "json" in t, 0 when there is none
FirstFenceJson(t) ==
    IF \E i \in 1..(Len(t) - 1) : t[i] = Fence /\ t[i + 1] = "json"
    THEN CHOOSE i \in 1..(Len(t) - 1) :
            /\ t[i] = Fence /\ t[i + 1] = "json"
            /\ \A j \in 1..(i - 1) : ~(t[j] = Fence /\ t[j + 1] = "json")
    ELSE 0

\* generate_library.py lines 52-56 and 72-76
fence_split(text) ==
    LET t == Strip(text)
    IN  IF FirstFenceJson(t) # 0
        THEN Strip(BeforeFirst(SubSeq(t, FirstFenceJson(t) + 2, Len(t)), Fence))
        ELSE IF FirstIndex(t, Fence) # 0
        THEN Strip(BeforeFirst(AfterFirst(t, Fence), Fence))
        ELSE t

\* json.loads: the text is one payload that parses, white space around it
json_ok(text, payloads) == Len(Strip(text)) = 1 /\ Strip(text)[1] \in payloads

json_loads(text) == Strip(text)[1]

(***************************************************************************)
(* State.                                                                  *)
(***************************************************************************)
VARIABLES
    store,   \* library/: slug -> the persisted episode record, if any
    pc,      \* where each process stands
    loc,     \* the local variables of each process
    ops      \* operations started so far; also the clock of time.time()

vars == <<store, pc, loc, ops>>

\* the server (one event loop) and one run of the batch script
Server == "server"
Batch == "batch"
Procs == {Server, Batch}

NoFile == [exists |-> FALSE, doc |-> NoDoc]

File(doc) == [exists |-> TRUE, doc |-> doc]

NoResult == [ok |-> FALSE, bytes |-> <<>>, msg |-> <<>>]

NoRequest == [text |-> <<>>, voice |-> "", emotion |-> ""]

IdleLoc ==
    [op |-> "none", slug |-> <<>>,
     episode |-> NoDoc, voice_map |-> <<>>,
     audio_cache |-> <<>>, had_cache |-> FALSE, cache0 |-> <<>>,
     aI |-> 0, sI |-> 0,
     total_scenes |-> 0, cached_scenes |-> 0, generated_scenes |-> 0,
     calls |-> 0, failed |-> 0, stopped |-> FALSE, last |-> NoResult,
     request |-> NoRequest, outline_text |-> <<>>,
     text |-> <<>>, scene_key |-> "", audio_bytes |-> <<>>,
     status |-> 0]

Init ==
    /\ store = [s \in Slugs |-> NoFile]
    /\ pc = [p \in Procs |-> "idle"]
    /\ loc = [p \in Procs |-> IdleLoc]
    /\ ops = 0

\* os.path.exists(path)
exists(st, slug) == slug \in DOMAIN st /\ st[slug].exists


\* the create(...) call of the generation client raising instead of replying
LLMRaises == <<"<raise>">>

SetLoc(p, l) == loc' = [loc EXCEPT ![p] = l]

\* the end of an operation: the process is idle again; of its locals only
\* the outcome stays readable in loc, until its next operation starts: the
\* status, the episode it returns, and the counts of the audio pass
Finish(p, l) ==
    /\ SetLoc(p, [IdleLoc EXCEPT !.op = l.op, !.status = l.status,
                                 !.episode = l.episode, !.calls = l.calls,
                                 !.generated_scenes = l.generated_scenes])
    /\ pc' = [pc EXCEPT ![p] = "idle"]

Goto(p, label, l) ==
    /\ SetLoc(p, l)
    /\ pc' = [pc EXCEPT ![p] = label]

(***************************************************************************)
(* server.py: POST /api/generate (api_generate, generate_episode,          *)
(* save_episode).  The handler runs on the event loop without yielding, so *)
(* the server is one process; the batch script is another and its file     *)
(* operations fall between those of the server.                            *)
(***************************************************************************)
MaxQuestionLen == 200

\* a validation without the size test of lines 137-138
rejected_if_empty(question) == question = <<>>

\* api_generate lines 135-138, question being the stripped input
question_rejected(question) ==
    question = <<>> \/ Len(question) > MaxQuestionLen

\* api_generate lines 133-138, and the Stage 1 request of generate_episode
ApiGenerateStart(p, q) ==
    /\ p = Server
    /\ pc[p] = "idle"
    /\ ops < MaxOps
    /\ ops' = ops + 1
    /\ UNCHANGED store
    /\ LET question == Strip(q)
           l == [IdleLoc EXCEPT !.op = "generate"]
       IN  IF question_rejected(question)
           THEN Finish(p, [l EXCEPT !.status = 400])
           ELSE Goto(p, "gen_s1", [l EXCEPT !.calls = 1])

\* a chain that hands the Stage 1 text on without parsing it
stage1_unparsed(text) == TRUE

\* generate_episode line 92, generate_episode_json line 57:
\* outline = json.loads(outline_text)
stage1_parses(text) == json_ok(text, {"outline"})

\* generate_episode lines 91-105: the Stage 1 reply, and the Stage 2 request,
\* which carries outline_text
ServerStage1(p) ==
    /\ p = Server
    /\ pc[p] = "gen_s1"
    /\ UNCHANGED <<store, ops>>
    /\ \E reply \in Stage1Replies \cup {LLMRaises} :
        LET cleaned == clean_json(reply)
        IN  IF reply = LLMRaises \/ ~cleaned.ok \/ ~stage1_parses(cleaned.text)
            THEN Finish(p, [loc[p] EXCEPT !.status = 500])
            ELSE Goto(p, "gen_s2", [loc[p] EXCEPT !.calls = @ + 1,
                                                  !.outline_text = cleaned.text])

\* save_episode line 28: episode.get("question", "unknown")
episode_question(episode) ==
    IF episode.has_question THEN episode.question ELSE QUnknown

\* a save_episode without the test of line 32
save_always(st, slug) == TRUE

\* save_episode line 32: the record is written only when there is none
save_writes(st, slug) == ~exists(st, slug)

\* generate_episode lines 108-115, api_generate lines 143-149 and
\* save_episode lines 28-32: the Stage 2 reply, the voice map, the episode
\* key, and the existence test of save_episode
ServerStage2(p) ==
    /\ p = Server
    /\ pc[p] = "gen_s2"
    /\ UNCHANGED <<store, ops>>
    /\ \E reply \in Stage2Replies \cup {LLMRaises} :
        LET cleaned == clean_json(reply)
        IN  IF reply = LLMRaises \/ ~cleaned.ok \/ ~json_ok(cleaned.text, DocNames)
            THEN Finish(p, [loc[p] EXCEPT !.status = 500])
            ELSE
                LET script  == ParsedDoc(json_loads(cleaned.text))
                    episode == [script EXCEPT
                                   !.has_voice_map = TRUE,
                                   !.voice_map = build_expert_voice_map(script.characters),
                                   !.has_episode_key = TRUE]
                    slug    == slugify(episode_question(episode))
                    l       == [loc[p] EXCEPT !.episode = episode, !.slug = slug]
                IN  IF save_writes(store, slug)
                    THEN Goto(p, "save_write", l)
                    ELSE Finish(p, [l EXCEPT !.status = 200])

\* save_episode lines 33-34 and api_generate line 154
SaveEpisodeWrite(p) ==
    /\ p = Server
    /\ pc[p] = "save_write"
    /\ store' = [store EXCEPT ![loc[p].slug] = File(loc[p].episode)]
    /\ UNCHANGED ops
    /\ Finish(p, [loc[p] EXCEPT !.status = 200])


(***************************************************************************)
(* server.py: POST /api/tts (api_tts).                                     *)
(***************************************************************************)
\* the scene keys a client sends: none, or the key of the first scene (a
\* dialogue in one document, a transition in another)
TtsKeys == {"", "0-0"}

TtsSlugs == {<<>>, slugify(QSky)}

TtsTexts == {<<>>, T1}

\* ep_data["audio_cache"][scene_key] = ...
SetAudio(doc, key, payload) ==
    [doc EXCEPT
        !.has_audio_cache = TRUE,
        !.audio_cache = [k \in DOMAIN doc.audio_cache \cup {key} |->
                            IF k = key THEN payload ELSE doc.audio_cache[k]]]

\* api_tts lines 181-194: the request is checked and synthesis is requested
ApiTtsStart(p, text, slug, scene_key) ==
    /\ p = Server
    /\ pc[p] = "idle"
    /\ ops < MaxOps
    /\ ops' = ops + 1
    /\ UNCHANGED store
    /\ LET l == [IdleLoc EXCEPT !.op = "tts", !.text = Strip(text),
                                !.slug = slug, !.scene_key = scene_key]
       IN  IF Strip(text) = <<>>
           THEN Finish(p, [l EXCEPT !.status = 400])
           ELSE Goto(p, "tts_call",
                     [l EXCEPT !.calls = 1,
                               !.request = [text |-> Strip(text), voice |-> "troy",
                                            emotion |-> "neutral"]])

\* api_tts lines 206-208: the entry is written only when the key is new
tts_writes(ep_data, scene_key) ==
    ~ep_data.has_audio_cache \/ scene_key \notin DOMAIN ep_data.audio_cache

\* api_tts lines 194-208: the synthesis result, and the read of the record
ApiTtsReply(p) ==
    /\ p = Server
    /\ pc[p] = "tts_call"
    /\ UNCHANGED <<store, ops>>
    /\ \E reply \in BackendReplies :
        LET r == generate_speech(loc[p].request.text, loc[p].request.voice,
                                 loc[p].request.emotion, reply)
            l == [loc[p] EXCEPT !.last = r, !.audio_bytes = r.bytes]
        IN  IF ~r.ok
            THEN Finish(p, [l EXCEPT !.status = 500])
            ELSE IF /\ l.slug # <<>> /\ l.scene_key # "" /\ r.bytes # <<>>
                    /\ exists(store, l.slug)
                    /\ tts_writes(store[l.slug].doc, l.scene_key)
            THEN Goto(p, "tts_write", [l EXCEPT !.episode = store[l.slug].doc])
            ELSE Finish(p, [l EXCEPT !.status = 200])

\* api_tts lines 209-211: the whole record is written back with the entry
ApiTtsWrite(p) ==
    /\ p = Server
    /\ pc[p] = "tts_write"
    /\ store' = [store EXCEPT ![loc[p].slug] =
                    File(SetAudio(loc[p].episode, loc[p].scene_key,
                                  b64encode(loc[p].audio_bytes)))]
    /\ UNCHANGED ops
    /\ Finish(p, [loc[p] EXCEPT !.status = 200, !.episode = NoDoc])


(***************************************************************************)
(* generate_library.py: one question of the main loop, which is            *)
(* generate_episode_json and then, unless --text-only,                     *)
(* generate_audio_for_episode on the episode it returned.                  *)
(***************************************************************************)
\* a reuse check that asks only whether the record exists
reuse_if_exists(st, slug) == exists(st, slug)

\* generate_episode_json lines 33-36: the record exists and has acts
reuse_check(st, slug) == exists(st, slug) /\ st[slug].doc.acts # <<>>

\* a key made of the scene index alone
scene_index_only(aI, sI) == ToString(sI)

\* f"{aI}-{sI}"
scene_key(aI, sI) == ToString(aI) \o "-" \o ToString(sI)

\* a pass that starts from an empty cache whatever the record holds
empty_at_start(episode) == <<>>

\* generate_audio_for_episode line 94: episode.get("audio_cache", {})
cache_at_start(episode) ==
    IF episode.has_audio_cache THEN episode.audio_cache ELSE <<>>

\* generate_audio_for_episode lines 93-98: the locals before the walk
EnterAudio(l, episode) ==
    [l EXCEPT
        !.episode = episode,
        !.voice_map = IF episode.has_voice_map THEN episode.voice_map ELSE <<>>,
        !.audio_cache = cache_at_start(episode),
        !.had_cache = episode.has_audio_cache,
        !.cache0 = IF episode.has_audio_cache THEN episode.audio_cache ELSE <<>>,
        !.aI = 0, !.sI = 0,
        !.total_scenes = 0, !.cached_scenes = 0, !.generated_scenes = 0,
        !.calls = 0, !.failed = 0, !.stopped = FALSE, !.last = NoResult]

\* main lines 158-172 and 180-185: with the episode in hand the script is
\* done when it was started with --text-only, and else goes on to the audio
\* pass (the option is read here for the first time)
WithEpisode(p, l, episode) ==
    \E text_only \in BOOLEAN :
        IF text_only
        THEN Finish(p, [l EXCEPT !.episode = episode, !.status = 200])
        ELSE Goto(p, "audio", EnterAudio(l, episode))

\* generate_episode_json lines 29-51: the reuse check, else the Stage 1 request
GenerateEpisodeJsonStart(p, q) ==
    /\ p = Batch
    /\ pc[p] = "idle"
    /\ ops < MaxOps
    /\ ops' = ops + 1
    /\ UNCHANGED store
    /\ LET slug == slugify(q)
           l == [IdleLoc EXCEPT !.op = "batch", !.slug = slug]
       IN  IF reuse_check(store, slug)
           THEN WithEpisode(p, l, store[slug].doc)
           ELSE Goto(p, "b_s1", [l EXCEPT !.calls = 1])

\* generate_episode_json lines 52-71: the Stage 1 reply, the Stage 2 request,
\* which carries json.dumps(outline);
\* an exception ends this question of the main loop (lines 168, 186)
BatchStage1(p) ==
    /\ p = Batch
    /\ pc[p] = "b_s1"
    /\ UNCHANGED <<store, ops>>
    /\ \E reply \in Stage1Replies \cup {LLMRaises} :
        IF reply = LLMRaises \/ ~stage1_parses(fence_split(reply))
        THEN Finish(p, [loc[p] EXCEPT !.status = 500])
        ELSE Goto(p, "b_s2", [loc[p] EXCEPT !.calls = @ + 1,
                                            !.outline_text = Strip(fence_split(reply))])

\* a script that opens the record for writing before it parses the reply,
\* and so leaves an empty file behind when json.loads raises
FailedAfterOpen(p) ==
    /\ Finish(p, [loc[p] EXCEPT !.status = 500])
    /\ store' = [store EXCEPT ![loc[p].slug] = File(NoDoc)]

\* generate_episode_json lines 63-77 raising: the exception leaves the
\* function before line 84 and is reported by main (lines 168, 186)
FailedStage2(p) ==
    /\ Finish(p, [loc[p] EXCEPT !.status = 500])
    /\ UNCHANGED store

\* generate_episode_json lines 72-88: the Stage 2 reply, the voice map and
\* the write of the record
BatchStage2(p) ==
    /\ p = Batch
    /\ pc[p] = "b_s2"
    /\ UNCHANGED ops
    /\ \E reply \in Stage2Replies \cup {LLMRaises} :
        IF reply = LLMRaises \/ ~json_ok(fence_split(reply), DocNames)
        THEN FailedStage2(p)
        ELSE
            LET parsed  == ParsedDoc(json_loads(fence_split(reply)))
                episode == [parsed EXCEPT
                               !.has_voice_map = TRUE,
                               !.voice_map = build_expert_voice_map(parsed.characters)]
            IN  /\ store' = [store EXCEPT ![loc[p].slug] = File(episode)]
                /\ WithEpisode(p, loc[p], episode)

\* a classification that looks for the status code in the failure text
is_status_429(msg) == Contains(Lower(msg), <<"4","2","9">>)

\* a classification that is true of every failure text, as the condition
\* ("rate" or "limit" in text) is
is_any_failure(msg) == TRUE

\* generate_audio_for_episode line 129
is_rate_limit(msg) ==
    \/ Contains(Lower(msg), <<"r","a","t","e">>)
    \/ Contains(Lower(msg), <<"l","i","m","i","t">>)

\* a scene filter without the text test of lines 104-105
eligible_by_type(scene) == scene.type \in {"dialogue", "explanation"}

\* lines 102-105: the scene is spoken
eligible(scene) ==
    /\ scene.type \in {"dialogue", "explanation"}
    /\ scene.text # <<>>

\* the walk has visited every act
WalkOver(l) == l.aI >= Len(l.episode.acts)

\* the walk is over, or was stopped by the break of lines 131 and 134
WalkEnded(l) == l.stopped \/ WalkOver(l)

\* a walk that stays at the scene it has handled
stay_in_place(l) == l

\* the for statements of lines 100-101: on to the next scene, or the next act
Advance(l) ==
    IF l.sI + 1 < Len(l.episode.acts[l.aI + 1])
    THEN [l EXCEPT !.sI = @ + 1]
    ELSE [l EXCEPT !.aI = @ + 1, !.sI = 0]

\* the scene the walk stands at
CurrentScene(l) == l.episode.acts[l.aI + 1][l.sI + 1]

\* a walk without the test of line 110
never_cached(l) == FALSE

\* line 110: the scene the walk stands at has its key in audio_cache
is_cached(l) == scene_key(l.aI, l.sI) \in DOMAIN l.audio_cache

\* lines 102-112: the turn of the loops at this position requests synthesis
NeedsCall(l) ==
    /\ ~WalkEnded(l)
    /\ l.episode.acts[l.aI + 1] # <<>>
    /\ eligible(CurrentScene(l))
    /\ ~is_cached(l)

\* lines 114-116: the synthesis request for the scene the walk stands at
SceneRequest(l) ==
    LET scene == CurrentScene(l)
    IN  [text    |-> scene.text,
         voice   |-> IF scene.character \in DOMAIN l.voice_map
                     THEN l.voice_map[scene.character] ELSE "troy",
         emotion |-> IF scene.emotion = Absent THEN "neutral" ELSE scene.emotion]

\* lines 118-131: the locals after the synthesis request got this reply
AfterCall(l, reply) ==
    LET key    == scene_key(l.aI, l.sI)
        req    == SceneRequest(l)
        r      == generate_speech(req.text, req.voice, req.emotion, reply)
        called == [l EXCEPT !.total_scenes = @ + 1, !.calls = @ + 1,
                            !.last = r, !.request = req]
    IN  IF r.ok
        THEN Advance([called EXCEPT
                        !.generated_scenes = @ + 1,
                        !.audio_cache = [k \in DOMAIN l.audio_cache \cup {key} |->
                                            IF k = key THEN b64encode(r.bytes)
                                            ELSE l.audio_cache[k]]])
        ELSE IF is_rate_limit(r.msg)
        THEN [called EXCEPT !.failed = @ + 1, !.stopped = TRUE]
        ELSE Advance([called EXCEPT !.failed = @ + 1])

\* lines 100-134: the locals after one turn of the loops; reply is what the
\* backend does with the synthesis request, when the turn makes one
SceneTurn(l, reply) ==
    IF l.episode.acts[l.aI + 1] = <<>>
    THEN [l EXCEPT !.aI = @ + 1, !.sI = 0]
    ELSE IF ~eligible(CurrentScene(l))
    THEN Advance(l)
    ELSE IF is_cached(l)
    THEN Advance([l EXCEPT !.total_scenes = @ + 1, !.cached_scenes = @ + 1])
    ELSE AfterCall(l, reply)

\* generate_audio_for_episode lines 100-134: one turn of the loops
AudioScene(p) ==
    /\ p = Batch
    /\ pc[p] = "audio"
    /\ ~WalkEnded(loc[p])
    /\ UNCHANGED <<store, pc, ops>>
    /\ \E reply \in IF NeedsCall(loc[p]) THEN BackendReplies
                    ELSE {CHOOSE r \in BackendReplies : TRUE} :
            SetLoc(p, SceneTurn(loc[p], reply))

\* a write of the episode without the assignment of line 136
episode_as_loaded(l) == l.episode

\* line 136: episode["audio_cache"] = audio_cache
WithAudioCache(l) ==
    [l.episode EXCEPT !.has_audio_cache = TRUE, !.audio_cache = l.audio_cache]

\* generate_audio_for_episode lines 136-145: the record is written whole
AudioWrite(p) ==
    /\ p = Batch
    /\ pc[p] = "audio"
    /\ WalkEnded(loc[p])
    /\ UNCHANGED ops
    /\ store' = [store EXCEPT ![loc[p].slug] = File(WithAudioCache(loc[p]))]
    /\ Finish(p, [loc[p] EXCEPT !.episode = WithAudioCache(loc[p]), !.status = 200])

\* the locals at the end of every walk that starts from l
RECURSIVE Walks(_)
Walks(l) ==
    IF WalkEnded(l) THEN {l}
    ELSE IF NeedsCall(l)
    THEN UNION {Walks(SceneTurn(l, reply)) : reply \in BackendReplies}
    ELSE Walks(SceneTurn(l, CHOOSE r \in BackendReplies : TRUE))

\* generate_audio_for_episode as one step: the walk reads and writes only
\* its own locals, so its turns are taken together with the write that ends
\* the pass; the return value is generated_scenes
AudioPass(p) ==
    /\ p = Batch
    /\ pc[p] = "audio"
    /\ UNCHANGED ops
    /\ \E l \in Walks(loc[p]) :
        /\ store' = [store EXCEPT ![l.slug] = File(WithAudioCache(l))]
        /\ Finish(p, [l EXCEPT !.episode = WithAudioCache(l), !.status = 200])

(***************************************************************************)
(* The system: the server and the batch script, each file operation and    *)
(* each external call a step of its own.                                   *)
(***************************************************************************)
ServerStep(p) ==
    \/ \E q \in GenerateInputs : ApiGenerateStart(p, q)
    \/ ServerStage1(p)
    \/ ServerStage2(p)
    \/ SaveEpisodeWrite(p)
    \/ \E text \in TtsTexts, slug \in TtsSlugs, key \in TtsKeys :
            ApiTtsStart(p, text, slug, key)
    \/ ApiTtsReply(p)
    \/ ApiTtsWrite(p)

BatchGenerate(p) ==
    \/ \E q \in Questions : GenerateEpisodeJsonStart(p, q)
    \/ BatchStage1(p)
    \/ BatchStage2(p)

Next == \E p \in Procs : ServerStep(p) \/ BatchGenerate(p) \/ AudioPass(p)

Spec == Init /\ [][Next]_vars

(***************************************************************************)
(* The batch script alone, the audio pass turn by turn.                    *)
(***************************************************************************)
NextSeq == BatchGenerate(Batch) \/ AudioScene(Batch) \/ AudioWrite(Batch)

SpecSeq == Init /\ [][NextSeq]_vars

(***************************************************************************)
(* Every operation from its first step to its last without another         *)
(* process stepping in between.                                            *)
(***************************************************************************)
NextAtomic ==
    \E p \in Procs :
        /\ \A other \in Procs \ {p} : pc[other] = "idle"
        /\ (ServerStep(p) \/ BatchGenerate(p) \/ AudioPass(p))

SpecAtomic == Init /\ [][NextAtomic]_vars

(***************************************************************************)
(* Notions the properties below are stated with.                           *)
(***************************************************************************)
\* the keys of the audio-eligible scenes of an episode
EligibleKeys(episode) ==
    UNION {{scene_key(a - 1, i - 1) :
                i \in {j \in DOMAIN episode.acts[a] : eligible(episode.acts[a][j])}} :
           a \in DOMAIN episode.acts}

\* the record of slug S, audio_cache aside
NonAudio(doc) == [doc EXCEPT !.has_audio_cache = FALSE, !.audio_cache = <<>>]

\* every entry of every persisted audio_cache is there after the step, unchanged
EntriesKept ==
    \A s \in Slugs : \A k \in DOMAIN store[s].doc.audio_cache :
        /\ store'[s].exists
        /\ k \in DOMAIN store'[s].doc.audio_cache
        /\ store'[s].doc.audio_cache[k] = store[s].doc.audio_cache[k]

(***************************************************************************)
(* The episode store.                                                      *)
(***************************************************************************)
\* the slug save_episode computes for the episode api_generate hands it
SavedSlug(episode) == slugify(episode_question(episode))

\* C1: when a record is persisted at slug S, save_episode called with a
\* document whose slug is S writes nothing: the store after the call is the
\* store before it, and the handler returns without a write to come.
C1_SaveKeepsExisting ==
    [][(/\ pc[Server] = "gen_s2"
        /\ loc'[Server].episode # NoDoc
        /\ exists(store, SavedSlug(loc'[Server].episode)))
       => (/\ store' = store
           /\ pc'[Server] = "idle"
           /\ loc'[Server].status = 200)]_vars

\* api_generate has returned a document whose slug holds another document
C1_Witness ==
    /\ pc[Server] = "idle"
    /\ loc[Server].op = "generate"
    /\ loc[Server].status = 200
    /\ loc[Server].episode # NoDoc
    /\ exists(store, SavedSlug(loc[Server].episode))
    /\ NonAudio(store[SavedSlug(loc[Server].episode)].doc) # NonAudio(loc[Server].episode)

\* C2: a generation request for a question whose slug has a persisted
\* episode with at least one act makes no Stage 1 (and so no Stage 2) call,
\* whichever entry point it comes through.
C2_NoCallWhenPersisted ==
    [][\A p \in Procs : \A q \in Questions :
        (/\ ApiGenerateStart(p, q) \/ GenerateEpisodeJsonStart(p, q)
         /\ exists(store, slugify(q))
         /\ Len(store[slugify(q)].doc.acts) >= 1)
        => loc'[p].calls = 0]_vars

\* C3: generate_episode_json reuses the persisted record, with no call,
\* exactly when the record exists and has at least one act; a missing record
\* or one with zero acts sends the Stage 1 request.
C3_ReuseCheck ==
    [][\A q \in Questions :
        GenerateEpisodeJsonStart(Batch, q) =>
            IF exists(store, slugify(q)) /\ Len(store[slugify(q)].doc.acts) >= 1
            THEN /\ loc'[Batch].calls = 0
                 /\ pc'[Batch] # "b_s1"
                 /\ NonAudio(loc'[Batch].episode) = NonAudio(store[slugify(q)].doc)
            ELSE /\ pc'[Batch] = "b_s1"
                 /\ loc'[Batch].calls = 1]_vars

\* the Stage 1 request is out for a slug whose record exists with zero acts
C3_Witness ==
    /\ pc[Batch] = "b_s1"
    /\ exists(store, loc[Batch].slug)
    /\ store[loc[Batch].slug].doc.acts = <<>>

\* C4: once a record with at least one act is persisted at a slug, no step
\* replaces its document: whichever of two racing generations wrote first
\* stays, audio_cache aside.
C4_FirstWriterStays ==
    [][\A s \in Slugs :
        (exists(store, s) /\ Len(store[s].doc.acts) >= 1)
        => (/\ exists(store', s)
            /\ NonAudio(store'[s].doc) = NonAudio(store[s].doc))]_vars

\* C5: with every operation run from start to end on its own, an entry of a
\* persisted audio_cache is never removed or changed.
C5_WriteOnceAtomic == [][EntriesKept]_vars

\* C6: the write that ends an audio pass keeps every entry the persisted
\* audio_cache holds at that moment, api_tts writes in between included.
C6_PassKeepsEntries == [][AudioPass(Batch) => EntriesKept]_vars

(***************************************************************************)
(* The audio pass of the batch script, turn by turn.                       *)
(***************************************************************************)
\* the keys of the eligible scenes the walk has passed, and of those at or
\* after the scene it stands at
PassedKeys(l) ==
    UNION {{scene_key(a - 1, i - 1) :
                i \in {j \in DOMAIN l.episode.acts[a] :
                          /\ eligible(l.episode.acts[a][j])
                          /\ (a - 1 < l.aI \/ (a - 1 = l.aI /\ j - 1 < l.sI))}} :
           a \in DOMAIN l.episode.acts}

RemainingKeys(l) == EligibleKeys(l.episode) \ PassedKeys(l)

\* the entries audio_cache held when the pass began are there, unchanged
StartEntriesKept(l) ==
    \A k \in DOMAIN l.cache0 :
        k \in DOMAIN l.audio_cache /\ l.audio_cache[k] = l.cache0[k]

\* C7 as stated: a pass on an episode an earlier pass has gone through ends
\* with the audio_cache it began with and a generated count of 0, whatever
\* the adapter did in the earlier pass.
C7_SecondPassAddsNothing ==
    (pc[Batch] = "audio" /\ loc[Batch].had_cache /\ WalkEnded(loc[Batch]))
    => (/\ loc[Batch].audio_cache = loc[Batch].cache0
        /\ loc[Batch].generated_scenes = 0)

\* C7: a second pass never regenerates, changes or removes an entry the first
\* pass left; when the first pass left every eligible scene cached, the second
\* makes no synthesis call, keeps audio_cache as it was and counts 0 generated.
C7_SecondPassKeepsEntries ==
    (pc[Batch] = "audio" /\ loc[Batch].had_cache)
    => (/\ StartEntriesKept(loc[Batch])
        /\ Cardinality(DOMAIN loc[Batch].audio_cache \ DOMAIN loc[Batch].cache0)
              = loc[Batch].generated_scenes
        /\ EligibleKeys(loc[Batch].episode) \subseteq DOMAIN loc[Batch].cache0
              => (/\ loc[Batch].audio_cache = loc[Batch].cache0
                  /\ loc[Batch].generated_scenes = 0
                  /\ loc[Batch].calls = 0))

\* a second pass is at its end on an episode whose eligible scenes, at least
\* two, the first pass all cached
C7_Witness ==
    /\ pc[Batch] = "audio"
    /\ loc[Batch].had_cache
    /\ WalkEnded(loc[Batch])
    /\ Cardinality(EligibleKeys(loc[Batch].episode)) >= 2
    /\ EligibleKeys(loc[Batch].episode) \subseteq DOMAIN loc[Batch].cache0
    /\ loc[Batch].cached_scenes >= 2

\* the last synthesis call of the pass failed with the rate limit named in
\* the failure, the only failure so far
RateLimitAbort(l) ==
    /\ l.calls >= 1
    /\ ~l.last.ok
    /\ l.last.msg = MsgRateLimit
    /\ l.failed = 1

\* C9: when the k-th synthesis call of a pass fails rate-limited after k-1
\* successes, the pass has inserted exactly k-1 entries, none for the failing
\* scene or a later one, makes no further call, writes that audio_cache and
\* returns k-1.
C9_RateLimitAbort ==
    [][(pc[Batch] = "audio" /\ RateLimitAbort(loc[Batch]))
       => (/\ loc[Batch].generated_scenes = loc[Batch].calls - 1
           /\ Cardinality(DOMAIN loc[Batch].audio_cache \ DOMAIN loc[Batch].cache0)
                 = loc[Batch].calls - 1
           /\ StartEntriesKept(loc[Batch])
           /\ scene_key(loc[Batch].aI, loc[Batch].sI) \in RemainingKeys(loc[Batch])
           /\ (RemainingKeys(loc[Batch]) \ DOMAIN loc[Batch].cache0)
                 \cap DOMAIN loc[Batch].audio_cache = {}
           /\ pc'[Batch] = "idle"
           /\ loc'[Batch].calls = loc[Batch].calls
           /\ loc'[Batch].generated_scenes = loc[Batch].calls - 1
           /\ store'[loc[Batch].slug].doc.audio_cache = loc[Batch].audio_cache)]_vars

\* the second call of a pass failed rate-limited, with an eligible uncached
\* scene still ahead of the failing one
C9_Witness ==
    /\ pc[Batch] = "audio"
    /\ RateLimitAbort(loc[Batch])
    /\ loc[Batch].calls = 2
    /\ Cardinality(RemainingKeys(loc[Batch]) \ DOMAIN loc[Batch].cache0) >= 2

\* a failure of the synthesis call whose text names neither rate nor limit
OtherFailure(r) ==
    /\ ~r.ok
    /\ r.msg \in {MsgEmptyText} \cup {MsgTtsFailed \o DecStr(n) : n \in {429}}

\* C10: a synthesis failure that is not rate-classified changes nothing in
\* audio_cache and moves the walk to the next scene; as long as no rate-limited
\* failure has stopped the walk, every eligible scene passed that was uncached
\* at the start was attempted, and the ones still uncached are the failed ones.
C10_SkipAndContinue ==
    [][(pc[Batch] = "audio" /\ pc'[Batch] = "audio")
       => (/\ (loc'[Batch].calls = loc[Batch].calls + 1 /\ OtherFailure(loc'[Batch].last))
                  => (/\ loc'[Batch].audio_cache = loc[Batch].audio_cache
                      /\ loc'[Batch].aI = Advance(loc[Batch]).aI
                      /\ loc'[Batch].sI = Advance(loc[Batch]).sI
                      /\ ~loc'[Batch].stopped)
           /\ loc'[Batch].stopped => loc'[Batch].last.msg = MsgRateLimit
           /\ ~loc'[Batch].stopped
                  => (/\ loc'[Batch].calls
                            = Cardinality(PassedKeys(loc'[Batch]) \ DOMAIN loc'[Batch].cache0)
                      /\ loc'[Batch].failed
                            = Cardinality(PassedKeys(loc'[Batch])
                                             \ DOMAIN loc'[Batch].audio_cache)))]_vars

\* a walk is over in which a call failed, not rate-classified, and a call for
\* a later scene succeeded
C10_Witness ==
    /\ pc[Batch] = "audio"
    /\ WalkOver(loc[Batch])
    /\ ~loc[Batch].stopped
    /\ "0-0" \in EligibleKeys(loc[Batch].episode) \ DOMAIN loc[Batch].audio_cache
    /\ "1-2" \in DOMAIN loc[Batch].audio_cache \ DOMAIN loc[Batch].cache0

\* C8: a pass on an episode whose eligible scenes, at least one, all have
\* their key in audio_cache makes no synthesis call, returns 0 and leaves
\* the persisted records as they are.
C8_FullCacheNoOp ==
    [][(/\ AudioPass(Batch)
        /\ loc[Batch].had_cache
        /\ EligibleKeys(loc[Batch].episode) # {}
        /\ EligibleKeys(loc[Batch].episode) \subseteq DOMAIN loc[Batch].audio_cache)
       => (/\ loc'[Batch].calls = 0
           /\ loc'[Batch].generated_scenes = 0
           /\ store' = store)]_vars

(***************************************************************************)
(* The end of the audio pass.                                              *)
(***************************************************************************)
\* C11: when the audio pass returns, after a full walk or after a rate-limit
\* abort, the persisted record of the episode holds audio_cache with every
\* entry the pass generated and every entry it started with.
C11_PersistAfterWalk ==
    [][(pc[Batch] = "audio" /\ pc'[Batch] = "idle")
       => (/\ WalkEnded(loc[Batch])
           /\ exists(store', loc[Batch].slug)
           /\ store'[loc[Batch].slug].doc.has_audio_cache
           /\ \A k \in DOMAIN loc[Batch].audio_cache :
                /\ k \in DOMAIN store'[loc[Batch].slug].doc.audio_cache
                /\ store'[loc[Batch].slug].doc.audio_cache[k] = loc[Batch].audio_cache[k]
           /\ StartEntriesKept(loc[Batch])
           /\ Cardinality(DOMAIN store'[loc[Batch].slug].doc.audio_cache
                             \ DOMAIN loc[Batch].cache0) = loc[Batch].generated_scenes
           /\ loc'[Batch].generated_scenes = loc[Batch].generated_scenes)]_vars

\* a pass has returned that was aborted on its second call, of three due: the
\* one entry it generated is in the persisted record
C11_Witness ==
    /\ pc[Batch] = "idle"
    /\ loc[Batch].op = "batch"
    /\ loc[Batch].status = 200
    /\ loc[Batch].generated_scenes = 1
    /\ loc[Batch].calls = 2
    /\ Cardinality(EligibleKeys(loc[Batch].episode)) = 3
    /\ \E s \in Slugs :
        /\ exists(store, s)
        /\ store[s].doc = loc[Batch].episode
        /\ Cardinality(DOMAIN store[s].doc.audio_cache) = 1

(***************************************************************************)
(* Which scenes the audio pass asks synthesis for.                         *)
(***************************************************************************)
\* C12: in a turn of a walk that has not been aborted, a synthesis call is
\* made exactly when the scene is a dialogue or an explanation, its text is
\* not empty and its key is not in audio_cache; the call is for that scene,
\* the only key a turn can add is that scene's, and a turn without a call
\* adds none (so none for a quiz, transition, celebration or empty text).
C12_CallIffEligibleUncached ==
    [][(pc[Batch] = "audio" /\ pc'[Batch] = "audio")
       => IF loc[Batch].episode.acts[loc[Batch].aI + 1] = <<>>
          THEN /\ loc'[Batch].calls = loc[Batch].calls
               /\ loc'[Batch].audio_cache = loc[Batch].audio_cache
          ELSE IF /\ CurrentScene(loc[Batch]).type \in {"dialogue", "explanation"}
                  /\ CurrentScene(loc[Batch]).text # <<>>
                  /\ scene_key(loc[Batch].aI, loc[Batch].sI)
                        \notin DOMAIN loc[Batch].audio_cache
          THEN /\ loc'[Batch].calls = loc[Batch].calls + 1
               /\ loc'[Batch].request.text = CurrentScene(loc[Batch]).text
               /\ DOMAIN loc'[Batch].audio_cache
                     \subseteq DOMAIN loc[Batch].audio_cache
                                  \cup {scene_key(loc[Batch].aI, loc[Batch].sI)}
          ELSE /\ loc'[Batch].calls = loc[Batch].calls
               /\ loc'[Batch].audio_cache = loc[Batch].audio_cache]_vars

\* a walk is over, every call having succeeded, on an episode with a quiz
\* at 0-1 and a dialogue without text at 1-1: neither has a key
C12_Witness ==
    /\ pc[Batch] = "audio"
    /\ WalkOver(loc[Batch])
    /\ loc[Batch].cache0 = <<>>
    /\ loc[Batch].generated_scenes = 3
    /\ DOMAIN loc[Batch].audio_cache = {"0-0", "1-0", "1-2"}
    /\ Len(loc[Batch].episode.acts) = 2
    /\ Len(loc[Batch].episode.acts[1]) = 2
    /\ Len(loc[Batch].episode.acts[2]) = 3
    /\ loc[Batch].episode.acts[1][2].type = "quiz"
    /\ loc[Batch].episode.acts[2][2].type = "dialogue"
    /\ loc[Batch].episode.acts[2][2].text = <<>>

(***************************************************************************)
(* Scene keys.                                                             *)
(***************************************************************************)
\* the positions (act index, scene index), zero-based, of all scenes
Positions(episode) ==
    UNION {{<<a - 1, i - 1>> : i \in DOMAIN episode.acts[a]} : a \in DOMAIN episode.acts}

\* C13: the key of a scene is its zero-based act index, a hyphen, and its
\* zero-based index among all scenes of the act, eligible or not; two
\* different positions of an episode never have the same key; the second
\* scene of the second act has key "1-1", which is not "0-1"; and the key
\* the pass inserts for a scene is the key of its position.
C13_SceneKeyAddressing ==
    [][(pc[Batch] = "audio" /\ pc'[Batch] = "audio")
       => (/\ \A x \in Positions(loc[Batch].episode) :
                /\ scene_key(x[1], x[2]) = ToString(x[1]) \o "-" \o ToString(x[2])
                /\ \A y \in Positions(loc[Batch].episode) :
                      scene_key(x[1], x[2]) = scene_key(y[1], y[2]) => x = y
           /\ scene_key(1, 1) = "1-1"
           /\ scene_key(0, 1) = "0-1"
           /\ loc'[Batch].generated_scenes = loc[Batch].generated_scenes + 1
                 => (/\ <<loc[Batch].aI, loc[Batch].sI>> \in Positions(loc[Batch].episode)
                     /\ DOMAIN loc'[Batch].audio_cache =
                          DOMAIN loc[Batch].audio_cache
                             \cup {ToString(loc[Batch].aI) \o "-" \o ToString(loc[Batch].sI)}))]_vars

\* in an episode of two acts, of 2 and of 3 scenes, the pass has cached the
\* third scene of the second act, whose second scene is not eligible, under
\* "1-2", and the first scene of the first act under "0-0"
C13_Witness ==
    /\ pc[Batch] = "audio"
    /\ Len(loc[Batch].episode.acts) = 2
    /\ Len(loc[Batch].episode.acts[1]) = 2
    /\ Len(loc[Batch].episode.acts[2]) = 3
    /\ "1-1" \notin EligibleKeys(loc[Batch].episode)
    /\ {"0-0", "1-2"} \subseteq DOMAIN loc[Batch].audio_cache \ DOMAIN loc[Batch].cache0

(***************************************************************************)
(* The voice map on its own: api_generate lines 143-145 for a document     *)
(* with any characters mapping.  The mapping is built up one character at  *)
(* a time, in the order characters.items() will yield; experts are named   *)
(* by their place among the experts, guides by their fixed ids.            *)
(***************************************************************************)
\* the longest characters mapping, and the longest one that is, after its
\* first character, a run of experts of one gender
MaxChars == 5
MaxRun == 10

Genders == {Female, Male, <<>>}

ExpertSeq(characters) ==
    SelectSeq(characters, LAMBDA c : c.id \notin DOMAIN GUIDE_VOICES)

ExpertId(characters) == "x" \o ToString(Len(ExpertSeq(characters)) + 1)

AddCharacter(id, gender) ==
    /\ pc[Server] = "idle"
    /\ LET characters == loc[Server].episode.characters
       IN  /\ \/ Len(characters) < MaxChars
              \/ /\ Len(characters) < MaxRun
                 /\ id \notin DOMAIN GUIDE_VOICES
                 /\ \A i \in 2..Len(characters) :
                       /\ characters[i].gender = gender
                       /\ characters[i].id \notin DOMAIN GUIDE_VOICES
           /\ IF id \in DOMAIN GUIDE_VOICES
              THEN gender = <<>> /\ \A i \in DOMAIN characters : characters[i].id # id
              ELSE id = ExpertId(characters)
           /\ SetLoc(Server, [loc[Server] EXCEPT
                                 !.op = "voices",
                                 !.episode.characters = Append(characters, Char(id, gender))])
    /\ UNCHANGED <<store, pc, ops>>

\* lines 143-145: voice_map = build_expert_voice_map(characters)
AssignVoices ==
    /\ pc[Server] = "idle"
    /\ LET voice_map == build_expert_voice_map(loc[Server].episode.characters)
       IN  Goto(Server, "voiced",
                [loc[Server] EXCEPT !.op = "voices",
                                    !.voice_map = voice_map,
                                    !.episode.has_voice_map = TRUE,
                                    !.episode.voice_map = voice_map])
    /\ UNCHANGED <<store, ops>>

NextVoices ==
    \/ \E id \in DOMAIN GUIDE_VOICES \cup {"x" \o ToString(k) : k \in 1..MaxRun + 1},
          gender \in Genders : AddCharacter(id, gender)
    \/ AssignVoices

SpecVoices == Init /\ [][NextVoices]_vars

\* C14: whatever the characters mapping, each guide in it gets its own fixed
\* voice (nova, bolt and pip three different ones, none of them a pool
\* voice), wherever it stands among the characters, and the experts get the
\* voices they would get with the guides left out of the mapping.
C14_GuidesFixed ==
    pc[Server] = "voiced" =>
        LET characters == loc[Server].episode.characters
            voice_map  == loc[Server].voice_map
        IN  /\ DOMAIN voice_map = {characters[i].id : i \in DOMAIN characters}
            /\ \A i \in DOMAIN characters :
                 /\ characters[i].id = "nova" => voice_map["nova"] = "rRiIQLylyhtZZrjx61F1"
                 /\ characters[i].id = "bolt" => voice_map["bolt"] = "2f1b6Q2ICKpLzWrEEYVE"
                 /\ characters[i].id = "pip" => voice_map["pip"] = "cN9lACJjByQco3FyvGzE"
                 /\ characters[i].id \notin {"nova", "bolt", "pip"} =>
                       /\ voice_map[characters[i].id] \in Range(EXPERT_VOICE_POOL)
                       /\ voice_map[characters[i].id] \notin
                             {"rRiIQLylyhtZZrjx61F1", "2f1b6Q2ICKpLzWrEEYVE",
                              "cN9lACJjByQco3FyvGzE"}
                       /\ voice_map[characters[i].id] =
                             build_expert_voice_map(ExpertSeq(characters))[characters[i].id]

\* voices are assigned for a mapping that starts with pip, holds all three
\* guides and two experts
C14_Witness ==
    /\ pc[Server] = "voiced"
    /\ Len(loc[Server].episode.characters) = 5
    /\ loc[Server].episode.characters[1].id = "pip"
    /\ {"nova", "bolt", "pip", "x1", "x2"} = DOMAIN loc[Server].voice_map

\* the voice pool of an expert with this gender field
PoolOf(gender) ==
    IF gender = Female THEN EXPERT_VOICES_FEMALE
    ELSE IF gender = Male THEN EXPERT_VOICES_MALE
    ELSE EXPERT_VOICE_POOL

\* the number of experts of the gender of characters[i] that come before it
Before(characters, i) ==
    Cardinality({j \in 1..(i - 1) :
                    /\ characters[j].id \notin DOMAIN GUIDE_VOICES
                    /\ characters[j].gender = characters[i].gender})

\* C15: the expert with n experts of its own kind (female, male, no gender)
\* before it in the mapping gets voice n mod pool size of its kind's pool
\* (4 female voices, 4 male, the 8 together for no gender), whatever else
\* comes before it; assigning again for the same mapping gives the same map.
C15_RoundRobinPools ==
    pc[Server] = "voiced" =>
        LET characters == loc[Server].episode.characters
            voice_map  == loc[Server].voice_map
        IN  /\ Len(EXPERT_VOICES_FEMALE) = 4
            /\ Len(EXPERT_VOICES_MALE) = 4
            /\ Len(EXPERT_VOICE_POOL) = 8
            /\ \A i \in DOMAIN characters :
                 characters[i].id \notin DOMAIN GUIDE_VOICES =>
                    voice_map[characters[i].id] =
                        PoolOf(characters[i].gender)
                            [(Before(characters, i) % Len(PoolOf(characters[i].gender))) + 1]
            /\ build_expert_voice_map(characters) = voice_map

\* voices are assigned for a male expert followed by five female ones: the
\* fifth female expert has the first female voice again
C15_Witness ==
    /\ pc[Server] = "voiced"
    /\ Len(loc[Server].episode.characters) = 6
    /\ loc[Server].episode.characters[1].gender = Male
    /\ \A i \in 2..6 : loc[Server].episode.characters[i].gender = Female
    /\ loc[Server].voice_map["x2"] = "67oeJmj7jIMsdE6yXPr5"
    /\ loc[Server].voice_map["x6"] = "67oeJmj7jIMsdE6yXPr5"
    /\ loc[Server].voice_map["x1"] = "MDLAMJ0jxkpYkjXbmG4t"

(***************************************************************************)
(* The stage chain.                                                        *)
(***************************************************************************)
GenerationSteps == {"gen_s1", "gen_s2", "b_s1", "b_s2"}

\* C16: a generation request that fails (the call raises, or the Stage 1 or
\* Stage 2 reply does not parse) ends with a failure status, returns no
\* episode, and none of its steps has changed the store; a request that ends
\* before its Stage 2 reply has failed.
C16_FailedGenerationPersistsNothing ==
    [][\A p \in Procs :
        /\ (pc'[p] \in GenerationSteps /\ pc'[p] # pc[p]) => store' = store
        /\ (pc[p] \in GenerationSteps /\ pc'[p] = "idle" /\ loc'[p].status = 500)
              => (store' = store /\ loc'[p].episode = NoDoc)
        /\ (pc[p] \in {"gen_s1", "b_s1"} /\ pc'[p] # pc[p])
              => (pc'[p] \in {"gen_s2", "b_s2"}
                    \/ (pc'[p] = "idle" /\ loc'[p].status = 500))
        /\ (pc[p] \in {"gen_s2", "b_s2"} /\ pc'[p] # pc[p] /\ loc'[p].status # 500)
              => loc'[p].episode # NoDoc]_vars

\* a run of the batch script has failed at Stage 2 on a slug that has a
\* record (one without acts, so that generation was tried again)
C16_Witness ==
    /\ pc[Batch] = "idle"
    /\ loc[Batch].op = "batch"
    /\ loc[Batch].status = 500
    /\ loc[Batch].calls = 2
    /\ \E s \in Slugs : exists(store, s) /\ store[s].doc.acts = <<>>

\* C17: within a generation request the Stage 1 call comes first and once,
\* the Stage 2 call is made only with a Stage 1 text that parsed as an
\* outline, and once; the request ends after at most these two calls, and a
\* failure of either stage ends it without another call.
C17_StageOrder ==
    [][\A p \in Procs :
        /\ pc'[p] \in {"gen_s1", "b_s1"}
              => (pc[p] \in {"idle", pc'[p]} /\ loc'[p].calls = 1)
        /\ pc'[p] = "gen_s2" => pc[p] \in {"gen_s1", "gen_s2"}
        /\ pc'[p] = "b_s2" => pc[p] \in {"b_s1", "b_s2"}
        /\ pc'[p] \in {"gen_s2", "b_s2"}
              => (loc'[p].calls = 2 /\ loc'[p].outline_text = <<"outline">>)
        /\ (pc[p] \in GenerationSteps /\ pc'[p] \notin GenerationSteps)
              => (/\ pc'[p] \in {"idle", "save_write", "audio"}
                  /\ pc'[p] # "audio" => loc'[p].calls = loc[p].calls
                  /\ pc[p] \in {"gen_s1", "b_s1"} => loc'[p].status = 500)]_vars

\* a request to /api/generate has ended in failure after its Stage 2 call
C17_Witness ==
    /\ pc[Server] = "idle"
    /\ loc[Server].op = "generate"
    /\ loc[Server].status = 500
    /\ loc[Server].calls = 2

(***************************************************************************)
(* Requests to the server.                                                 *)
(***************************************************************************)
\* C18: a request to /api/generate whose question is empty once trimmed or
\* longer than 200 characters, and a request to /api/tts whose text is
\* empty, is answered with status 400 in its first step: no call has been
\* made, none will be, and the store is as it was.
C18_RejectedBeforeCalls ==
    [][/\ \A q \in GenerateInputs :
            (ApiGenerateStart(Server, q) /\ (Strip(q) = <<>> \/ Len(Strip(q)) > 200))
            => (/\ pc'[Server] = "idle"
                /\ loc'[Server].status = 400
                /\ loc'[Server].calls = 0
                /\ store' = store)
       /\ \A text \in TtsTexts, slug \in TtsSlugs, key \in TtsKeys :
            (ApiTtsStart(Server, text, slug, key) /\ text = <<>>)
            => (/\ pc'[Server] = "idle"
                /\ loc'[Server].status = 400
                /\ loc'[Server].calls = 0
                /\ store' = store)]_vars

\* a request to /api/generate has been rejected while the library holds an
\* episode
C18_Witness ==
    /\ pc[Server] = "idle"
    /\ loc[Server].op = "generate"
    /\ loc[Server].status = 400
    /\ loc[Server].calls = 0
    /\ \E s \in Slugs : exists(store, s)

\* C19: every record is persisted under the slug of a question that was
\* asked: the questions asked are Questions, so no record exists at a slug
\* that is not the slug of one of them, whatever the generated document
\* says its question is.
C19_KeyedByAskedQuestion ==
    \A s \in Slugs :
        exists(store, s) => s \in {slugify(q) : q \in Questions}

(***************************************************************************)
(* slugify as a function of its input.  The two copies of slugify          *)
(* (server.py and generate_library.py) are the same code; each process     *)
(* is handed a text, typed one step at a time so that the two texts are    *)
(* equal but for letter case and for stripped punctuation, and each        *)
(* process then computes the slug of its text.                             *)
(***************************************************************************)

\* number of typing steps
MaxText == 4

\* a run of letters that brings a text next to the cut at SlugMax
LongRun == [i \in 1..(SlugMax - 1) |-> "a"]

\* characters typed into both texts
TypedChars == {"a", " ", "-", "_", "?"}

Typing == \A p \in Procs : pc[p] \in {"idle", "typing"}

Type(s, b) ==
    /\ Typing
    /\ ops < MaxText
    /\ ops' = ops + 1
    /\ pc' = [p \in Procs |-> "typing"]
    /\ loc' = [loc EXCEPT ![Server].text = @ \o s, ![Batch].text = @ \o b]
    /\ UNCHANGED store

\* the same character in both texts
TypeSame(c) == Type(<<c>>, <<c>>)

\* a letter, in lower case in one text and in upper case in the other
TypeCase == Type(<<"a">>, <<"A">>)

\* a punctuation mark the first substitution strips, in one text only
TypePunct == Type(<<"?">>, <<>>)

\* a long run of letters in both texts, once
TypeLong ==
    /\ Len(loc[Server].text) < SlugMax - 1
    /\ Type(LongRun, LongRun)

\* slug = slugify(question)
SlugifyText(p) ==
    /\ pc[p] = "typing"
    /\ Goto(p, "slugged", [loc[p] EXCEPT !.slug = slugify(loc[p].text)])
    /\ UNCHANGED <<store, ops>>

NextSlug ==
    \/ \E c \in TypedChars : TypeSame(c)
    \/ TypeCase
    \/ TypePunct
    \/ TypeLong
    \/ \E p \in Procs : SlugifyText(p)

SpecSlug == Init /\ [][NextSlug]_vars

\* both slugs have been computed
Slugged == \A p \in Procs : pc[p] = "slugged"

\* two texts that differ only in letter case or in punctuation: with the
\* case folded and the punctuation removed they are the same text (the
\* hyphen and the underscore, which slugify keeps as separators, are not
\* counted as punctuation here)
SameButCasePunct(t1, t2) == DropPunct(Lower(t1)) = DropPunct(Lower(t2))

\* C20: the slug of every text is at most SlugMax characters long and has
\* no hyphen at either end, also when it was truncated; and two texts that
\* differ only in letter case or punctuation have the same slug.
C20_SlugNormalisation ==
    Slugged =>
        /\ \A p \in Procs :
            /\ Len(loc[p].slug) <= SlugMax
            /\ loc[p].slug # <<>> =>
                 (Head(loc[p].slug) # "-" /\ loc[p].slug[Len(loc[p].slug)] # "-")
        /\ SameButCasePunct(loc[Server].text, loc[Batch].text)
             => loc[Server].slug = loc[Batch].slug

(***************************************************************************)
(* server.py: GET /api/library/{slug}/audio/{scene_key}                    *)
(* (api_library_audio), beside the operations that write audio_cache.      *)
(***************************************************************************)
\* base64.b64decode of a text b64encode produced
RECURSIVE b64decode(_)
b64decode(t) ==
    IF Len(t) < 4 THEN <<>>
    ELSE
        LET d(i) == IF t[i] = 64 THEN 0 ELSE t[i]
            v    == d(1) * 262144 + d(2) * 4096 + d(3) * 64 + d(4)
            n    == IF t[3] = 64 THEN 1 ELSE IF t[4] = 64 THEN 2 ELSE 3
        IN  SubSeq(<<v \div 65536, (v \div 256) % 256, v % 256>>, 1, n)
                \o b64decode(SubSeq(t, 5, Len(t)))

\* the scene keys a client asks for
AudioKeys == {"0-0", "1-0"}

\* api_library_audio lines 249-251: ep_data.get("audio_cache", {}).get(scene_key)
\* is there and is not empty
entry_served(ep_data, key) ==
    /\ ep_data.has_audio_cache
    /\ key \in DOMAIN ep_data.audio_cache
    /\ ep_data.audio_cache[key] # <<>>

\* api_library_audio lines 239-254: the handler has no await between the
\* read of the record and the response
ApiLibraryAudio(p, slug, key) ==
    /\ p = Server
    /\ pc[p] = "idle"
    /\ ops < MaxOps
    /\ ops' = ops + 1
    /\ UNCHANGED <<store, pc>>
    /\ LET l == [IdleLoc EXCEPT !.op = "audio", !.slug = slug,
                                !.scene_key = key]
       IN  IF ~exists(store, slug)
           THEN SetLoc(p, [l EXCEPT !.status = 404])
           ELSE IF ~entry_served(store[slug].doc, key)
           THEN SetLoc(p, [l EXCEPT !.status = 404])
           ELSE SetLoc(p, [l EXCEPT !.status = 200,
                                    !.audio_bytes =
                                        b64decode(store[slug].doc.audio_cache[key])])

\* the operations that write audio_cache, each from start to end, and the
\* fetch of an entry
NextFetch ==
    \/ NextAtomic
    \/ /\ pc[Batch] = "idle"
       /\ \E slug \in Slugs, key \in AudioKeys : ApiLibraryAudio(Server, slug, key)

SpecFetch == Init /\ [][NextFetch]_vars

\* C21: a fetch of (slug, key) leaves the store as it is; it answers 404
\* when the slug has no record or the record's audio_cache has no entry for
\* the key, and else answers 200 with the bytes the synthesis adapter had
\* returned for the entry, that is the bytes whose encoding the entry is.
C21_FetchCachedAudio ==
    [][\A slug \in Slugs, key \in AudioKeys :
        ApiLibraryAudio(Server, slug, key) =>
            /\ store' = store
            /\ IF ~exists(store, slug)
                  \/ key \notin DOMAIN store[slug].doc.audio_cache
               THEN loc'[Server].status = 404
               ELSE /\ loc'[Server].status = 200
                    /\ \E bytes \in AudioContents :
                        /\ store[slug].doc.audio_cache[key] = b64encode(bytes)
                        /\ loc'[Server].audio_bytes = bytes]_vars

(***************************************************************************)
(* The life of a persisted record.                                         *)
(***************************************************************************)
\* C22: a persisted record stays persisted, and its question, characters,
\* acts, voice_map and episode key stay as they were written: a step changes
\* nothing of it but audio_cache.
C22_OnlyAudioCacheChanges ==
    [][\A s \in Slugs :
        exists(store, s)
        => (/\ exists(store', s)
            /\ NonAudio(store'[s].doc) = NonAudio(store[s].doc))]_vars

(***************************************************************************)
(* Operations on different slugs.                                          *)
(***************************************************************************)
\* the process takes this step
Stepping(p) == pc'[p] # pc[p] \/ loc'[p] # loc[p]

\* the slug an operation in progress is for: the slug of the question asked
\* for a generation of the server (whichever question of Questions it was),
\* the slug in the request for api_tts, and the slug of the question for the
\* batch script, in generation and in its audio pass
OperationSlugs(p) ==
    IF loc[p].op = "generate"
    THEN {slugify(q) : q \in Questions}
    ELSE {loc[p].slug}

\* C23: a step of an operation for slug S changes no persisted record other
\* than the one keyed S, whatever the other process is doing.
C23_OtherSlugsUntouched ==
    [][\A p \in Procs : \A s \in Slugs :
        (Stepping(p) /\ store'[s] # store[s]) => s \in OperationSlugs(p)]_vars

(***************************************************************************)
(* The shape of the persisted episodes.                                    *)
(***************************************************************************)
\* the scenes of an episode
Scenes(episode) ==
    UNION {{episode.acts[a][i] : i \in DOMAIN episode.acts[a]} :
           a \in DOMAIN episode.acts}

\* C24: every quiz scene of every persisted episode has exactly 3 options,
\* exactly one of them correct, whatever document the Stage 2 reply carried.
C24_QuizShape ==
    \A s \in Slugs :
        exists(store, s) =>
            \A scene \in Scenes(store[s].doc) :
                scene.type = "quiz" =>
                    /\ Len(scene.options) = 3
                    /\ Cardinality({i \in DOMAIN scene.options :
                                        scene.options[i].correct}) = 1

(***************************************************************************)
(* The batch script run again and again: the audio pass resumed on the     *)
(* record earlier runs left.  Runs that find the record are not counted in *)
(* ops, so there is no last pass.                                          *)
(***************************************************************************)
\* main lines 176-185 on a question whose record exists with acts:
\* generate_episode_json returns the record (lines 33-38) and the audio pass
\* starts on it
ResumePass(p, slug) ==
    /\ p = Batch
    /\ pc[p] = "idle"
    /\ reuse_check(store, slug)
    /\ UNCHANGED <<store, ops>>
    /\ Goto(p, "audio",
            EnterAudio([IdleLoc EXCEPT !.op = "batch", !.slug = slug],
                       store[slug].doc))

\* the slugs of the questions the script is run with
QuestionSlugs == {slugify(q) : q \in Questions}

Resume == \E slug \in QuestionSlugs : ResumePass(Batch, slug)

NextResume ==
    \/ BatchGenerate(Batch)
    \/ Resume
    \/ AudioScene(Batch)
    \/ AudioWrite(Batch)

\* a turn of the walk in which the synthesis adapter succeeds
SynthesisSucceeds ==
    /\ AudioScene(Batch)
    /\ loc'[Batch].generated_scenes = loc[Batch].generated_scenes + 1

\* the script keeps running, and a scene that is attempted again and again
\* is synthesized in the end
SpecResume ==
    /\ Init
    /\ [][NextResume]_vars
    /\ WF_vars(Resume)
    /\ WF_vars(AudioScene(Batch) \/ AudioWrite(Batch))
    /\ SF_vars(SynthesisSucceeds)

\* the adapter can succeed for every eligible scene: generate_speech raises
\* "Empty text" on a text of white space, whatever the backend does
Speakable(episode) ==
    \A scene \in Scenes(episode) : eligible(scene) => Strip(scene.text) # <<>>

\* every eligible scene of the record at slug s is in its audio_cache
AllCached(s) ==
    /\ exists(store, s)
    /\ EligibleKeys(store[s].doc) \subseteq DOMAIN store[s].doc.audio_cache

\* a turn of a pass requests synthesis exactly when the scene it stands at
\* is eligible and was absent from audio_cache when the pass began
AttemptsTheMissing ==
    (pc[Batch] = "audio" /\ ~WalkEnded(loc[Batch]) /\ pc'[Batch] = "audio")
    => ((loc'[Batch].calls = loc[Batch].calls + 1)
        <=> (/\ loc[Batch].episode.acts[loc[Batch].aI + 1] # <<>>
             /\ scene_key(loc[Batch].aI, loc[Batch].sI)
                    \in EligibleKeys(loc[Batch].episode) \ DOMAIN loc[Batch].cache0))

\* C25: a pass attempts exactly the eligible scenes absent from the
\* audio_cache it found (all of them when it is not aborted); every pass
\* ends; and when the adapter can succeed for every eligible scene of a
\* record, and does in the end, repeated passes lead to a record with every
\* eligible scene cached.
C25_ResumableFill ==
    /\ [][AttemptsTheMissing]_vars
    /\ [][(AudioWrite(Batch) /\ ~loc[Batch].stopped)
            => loc[Batch].calls =
                 Cardinality(EligibleKeys(loc[Batch].episode) \ DOMAIN loc[Batch].cache0)]_vars
    /\ (pc[Batch] = "audio") ~> (pc[Batch] = "idle")
    /\ \A s \in QuestionSlugs :
        (exists(store, s) /\ store[s].doc.acts # <<>> /\ Speakable(store[s].doc))
            ~> AllCached(s)

\* a pass on a record an earlier pass left with some, not all, of its
\* eligible scenes cached has filled in the rest
C25_Witness ==
    /\ pc[Batch] = "audio"
    /\ WalkEnded(loc[Batch])
    /\ loc[Batch].cache0 # <<>>
    /\ ~(EligibleKeys(loc[Batch].episode) \subseteq DOMAIN loc[Batch].cache0)
    /\ EligibleKeys(loc[Batch].episode) \subseteq DOMAIN loc[Batch].audio_cache
    /\ loc[Batch].calls =
         Cardinality(EligibleKeys(loc[Batch].episode) \ DOMAIN loc[Batch].cache0)

(***************************************************************************)
(* The failures of the synthesis adapter, as the audio pass reads them.    *)
(***************************************************************************)
\* str(e) of the failure generate_speech raises on an HTTP 429 reply
MsgStatus429 == MsgTtsFailed \o DecStr(429)

\* C26: when the backend rejected the last synthesis request of a pass with
\* HTTP 429, the pass has classified the failure as rate-limited and stopped
\* the walk.
C26_Status429Aborts ==
    (/\ pc[Batch] = "audio"
     /\ ~loc[Batch].last.ok
     /\ loc[Batch].last.msg = MsgStatus429)
    => loc[Batch].stopped

(***************************************************************************)
(* The order of the synthesis requests of a pass.                          *)
(***************************************************************************)
\* the keys of the entries the pass has generated so far
GeneratedKeys(l) == DOMAIN l.audio_cache \ DOMAIN l.cache0

\* position (a, s) comes before the place where the walk stands
Behind(a, s, l) == a < l.aI \/ (a = l.aI /\ s < l.sI)

\* C27: a turn of the walk issues at most one synthesis request, for the
\* scene the walk stands at, and then the walk stands at a later position (or
\* has stopped); so the requests go out one at a time in increasing
\* (act index, scene index) order, and every entry generated in the pass is
\* for a scene behind the walk, before every scene still to be attempted.
C27_InOrderOneAtATime ==
    [][(pc[Batch] = "audio" /\ pc'[Batch] = "audio")
       => (/\ loc'[Batch].calls \in {loc[Batch].calls, loc[Batch].calls + 1}
           /\ loc'[Batch].calls = loc[Batch].calls + 1
                => (/\ loc'[Batch].request.text = CurrentScene(loc[Batch]).text
                    /\ GeneratedKeys(loc'[Batch]) \ GeneratedKeys(loc[Batch])
                          \subseteq {scene_key(loc[Batch].aI, loc[Batch].sI)})
           /\ loc'[Batch].stopped \/ Behind(loc[Batch].aI, loc[Batch].sI, loc'[Batch])
           /\ GeneratedKeys(loc'[Batch]) \subseteq PassedKeys(loc'[Batch])
           /\ GeneratedKeys(loc'[Batch]) \cap RemainingKeys(loc'[Batch]) = {})]_vars

\* two entries have been generated in a pass and an eligible scene is still
\* ahead
C27_Witness ==
    /\ pc[Batch] = "audio"
    /\ ~loc[Batch].stopped
    /\ Cardinality(GeneratedKeys(loc[Batch])) = 2
    /\ RemainingKeys(loc[Batch]) # {}

(***************************************************************************)
(* The extraction of the payload from a reply of the generation            *)
(* capability, on the two paths: clean_json in server.py, the fence        *)
(* splitting in generate_library.py.  Both processes are handed the same   *)
(* reply and each extracts and parses it as its code does.                 *)
(***************************************************************************)
\* what json.loads can return here: the outline or a document
Payloads == {"outline"} \cup DocNames

\* a payload in fenced formatting and/or explanatory prose
WrappedReplies(x) ==
    Wrappings(x) \cup
    { <<Fence, "json", "\n", x, "\n", Fence, "\n", "prose">>,
      <<"prose", "\n", Fence, "\n", x, "\n", Fence>>,
      <<"prose", "\n", x, "\n", "prose">> }

ReplyTexts == UNION {WrappedReplies(x) : x \in Payloads} \cup {<<"garbage">>}

\* message.content of the reply, as both paths receive it
ReceiveReply(reply) ==
    /\ \A p \in Procs : pc[p] = "idle"
    /\ ops < MaxOps
    /\ ops' = ops + 1
    /\ pc' = [p \in Procs |-> "reply"]
    /\ loc' = [p \in Procs |-> [IdleLoc EXCEPT !.text = reply]]
    /\ UNCHANGED store

\* the outcome of json.loads on the extracted text
Parsed(l, text) ==
    IF json_ok(text, Payloads)
    THEN [l EXCEPT !.outline_text = Strip(text), !.status = 200]
    ELSE [l EXCEPT !.status = 500]

\* generate_episode lines 91-92 and 108-109: json.loads(clean_json(text))
ExtractServer ==
    /\ pc[Server] = "reply"
    /\ UNCHANGED <<store, ops>>
    /\ LET cleaned == clean_json(loc[Server].text)
       IN  Goto(Server, "parsed",
                IF cleaned.ok THEN Parsed(loc[Server], cleaned.text)
                ELSE [loc[Server] EXCEPT !.status = 500])

\* generate_episode_json lines 52-57 and 72-77
ExtractBatch ==
    /\ pc[Batch] = "reply"
    /\ UNCHANGED <<store, ops>>
    /\ Goto(Batch, "parsed", Parsed(loc[Batch], fence_split(loc[Batch].text)))

\* the next reply
NextReply ==
    /\ \A p \in Procs : pc[p] = "parsed"
    /\ ops < MaxOps
    /\ pc' = [p \in Procs |-> "idle"]
    /\ loc' = [p \in Procs |-> IdleLoc]
    /\ UNCHANGED <<store, ops>>

NextExtract ==
    \/ \E reply \in ReplyTexts : ReceiveReply(reply)
    \/ ExtractServer
    \/ ExtractBatch
    \/ NextReply

SpecExtract == Init /\ [][NextExtract]_vars

\* C28: when the reply is one payload in fences and/or prose, both paths
\* parse it, and to the same value, the payload.
C28_TolerantExtraction ==
    \A x \in Payloads :
        (/\ \A p \in Procs : pc[p] = "parsed"
         /\ loc[Server].text \in WrappedReplies(x))
        => \A p \in Procs :
            /\ loc[p].status = 200
            /\ json_loads(loc[p].outline_text) = x

(***************************************************************************)
(* The batch script on a library that already holds records, among them    *)
(* records without a voice_map (the field api_library_episode and line 93  *)
(* of generate_library.py both allow to be absent).                        *)
(***************************************************************************)
\* a record as both generation paths persist it, and the same document
\* persisted without the voice_map field
LibraryFiles ==
    {NoFile} \cup
    UNION {{File([ParsedDoc(d) EXCEPT
                    !.has_voice_map = TRUE,
                    !.voice_map = build_expert_voice_map(ParsedDoc(d).characters)]),
            File(ParsedDoc(d))} : d \in {"docA", "docB"}}

InitLibrary ==
    /\ store \in [Slugs -> LibraryFiles]
    /\ \A s \in Slugs \ QuestionSlugs : store[s] = NoFile
    /\ pc = [p \in Procs |-> "idle"]
    /\ loc = [p \in Procs |-> IdleLoc]
    /\ ops = 0

SpecLibrary == InitLibrary /\ [][NextSeq]_vars

\* the ids of the characters an episode declares
Declared(episode) == {episode.characters[i].id : i \in DOMAIN episode.characters}

\* C29: the synthesis request of a turn of the walk carries the voice that
\* build_expert_voice_map(characters) gives the scene's character when the
\* episode declares the character, voice_map in the record or not, and the
\* default voice otherwise; its emotion is the scene's, neutral when the
\* scene has none.
C29_VoiceResolution ==
    [][(/\ pc[Batch] = "audio"
        /\ pc'[Batch] = "audio"
        /\ loc'[Batch].calls = loc[Batch].calls + 1)
       => LET scene == CurrentScene(loc[Batch])
              episode == loc[Batch].episode
          IN  /\ loc'[Batch].request.text = scene.text
              /\ loc'[Batch].request.voice =
                    IF scene.character \in Declared(episode)
                    THEN build_expert_voice_map(episode.characters)[scene.character]
                    ELSE "troy"
              /\ loc'[Batch].request.emotion =
                    IF scene.emotion = Absent THEN "neutral" ELSE scene.emotion]_vars

=============================================================================
